---- MODULE Spec2Model ----
(***************************************************************************)
(* bigint-toolkit: the signed byte codec (bigintToUint8 / uint8ToBigint),  *)
(* the modular arithmetic built on the extended Euclidean algorithm (eGcd, *)
(* toZn, modInv, modPow, gcd, isOdd, isEven) and random(start, end).       *)
(*                                                                         *)
(* A behaviour is one caller session: Init draws a function and its        *)
(* arguments, the actions run the function on them.  bigint is unbounded,  *)
(* so integers are plain Int.  A Uint8Array is a sequence over 0..255 held *)
(* in the variable bytes: the array object the caller keeps a reference to.*)
(***************************************************************************)
EXTENDS Integers, Sequences, FiniteSets, TLC

VARIABLES op, args, pc, ret, bytes, log, stack

vars == <<op, args, pc, ret, bytes, log, stack>>

----------------------------------------------------------------------------
(* Bounds of the checked input space.                                      *)

MaxNum == 300       \* bigintToUint8: num in -MaxNum..MaxNum
MaxLen == 2         \* uint8ToBigint: caller arrays of 1..MaxLen bytes
MaxDecodes == 2     \* uint8ToBigint calls on the same array object
MaxGcd == 12        \* eGcd: a, b in -MaxGcd..MaxGcd
MaxInv == 10        \* modInv: a in -MaxInv..MaxInv
MaxBase == 7        \* modPow: base in -MaxBase..MaxBase
MaxExp == 6         \* modPow: exp in -MaxExp..MaxExp
MaxMod == 9         \* modInv, modPow: m in -1..MaxMod
MaxParity == 20     \* isOdd, isEven: n in -MaxParity..MaxParity
MaxRand == 4        \* random: start, end in -MaxRand..MaxRand

\* Byte values the caller's arrays are built from (both sides of the sign bit).
ByteChoices == {0, 1, 127, 128, 129, 255}

----------------------------------------------------------------------------
(* Results: a returned value or a thrown Error.                            *)

Ok(v) == [ok |-> TRUE, val |-> v]
Throw(msg) == [ok |-> FALSE, msg |-> msg]
None == [ok |-> FALSE, msg |-> "no call yet"]

----------------------------------------------------------------------------
(* bigint operators of the host language.                                  *)

abs(num) == IF num < 0 THEN num * (-1) ELSE num

\* bigint `/`: truncates toward zero (b # 0)
jsDiv(a, b) ==
    LET q == abs(a) \div abs(b)
    IN  IF (a < 0) = (b < 0) THEN q ELSE -q

\* bigint `%`: the remainder takes the sign of the dividend (b # 0)
jsRem(a, b) ==
    LET r == abs(a) % abs(b)
    IN  IF a < 0 THEN -r ELSE r

RECURSIVE pow2(_)
pow2(n) == IF n = 0 THEN 1 ELSE 2 * pow2(n - 1)

\* bigint `&` on non-negative operands
RECURSIVE bitAnd(_, _)
bitAnd(x, y) ==
    IF x = 0 \/ y = 0 THEN 0
    ELSE 2 * bitAnd(x \div 2, y \div 2) + (IF x % 2 = 1 /\ y % 2 = 1 THEN 1 ELSE 0)

\* Characters of a numeric string: a digit is its value, '-' is Minus.
Minus == -1

RECURSIVE digits(_, _)
digits(n, radix) ==
    IF n < radix THEN <<n>> ELSE Append(digits(n \div radix, radix), n % radix)

\* num.toString(radix)
toString(num, radix) ==
    IF num < 0 THEN <<Minus>> \o digits(-num, radix) ELSE digits(num, radix)

\* parseInt(s, 16) / BigInt('0x' + s) on a string of hex digits
RECURSIVE parseHex(_)
parseHex(s) ==
    IF Len(s) = 0 THEN 0
    ELSE 16 * parseHex(SubSeq(s, 1, Len(s) - 1)) + s[Len(s)]

----------------------------------------------------------------------------
(* Hex and byte conversions.                                               *)

hexPadZero(hex) == IF Len(hex) % 2 # 0 THEN <<0>> \o hex ELSE hex

bigintToHex(num, padZero) ==
    LET hexString == toString(num, 16)
    IN  IF ~padZero THEN hexString ELSE hexPadZero(hexString)

bigintToHexPadZero(num) == bigintToHex(num, TRUE)

\* byteArray[i] = parseInt(hex.slice(j, j + 2), 16), two digits per byte
RECURSIVE hexToUint8(_)
hexToUint8(hex) ==
    IF Len(hex) < 2 THEN <<>>
    ELSE <<parseHex(SubSeq(hex, 1, 2))>> \o hexToUint8(SubSeq(hex, 3, Len(hex)))

\* The width chosen for a negative num: the string length counts the '-'.
complementBits(num) == ((Len(toString(num, 2)) \div 8) + 1) * 8

bigintToUint8(num, handleNegative) ==
    IF num < 0
    THEN IF handleNegative
         THEN Ok(hexToUint8(bigintToHexPadZero(num + pow2(complementBits(num)))))
         ELSE Throw("BigInt should larger than 0 to convert to Uint8Array")
    ELSE Ok(hexToUint8(bigintToHexPadZero(num)))

\* bytes[i] = ~bytes[i] & 0xff, for every i
RECURSIVE invertBytes(_)
invertBytes(b) ==
    IF Len(b) = 0 THEN <<>> ELSE <<255 - Head(b)>> \o invertBytes(Tail(b))

\* The carry loop, from index i (1-based) down to the first byte.
RECURSIVE addCarry(_, _, _)
addCarry(b, i, carry) ==
    IF i >= 1 /\ carry > 0
    THEN LET value == b[i] + carry
         IN  addCarry(SubSeq(b, 1, i - 1) \o <<value % 256>> \o SubSeq(b, i + 1, Len(b)),
                      i - 1, value \div 256)
    ELSE b

\* result = (result << 8n) + BigInt(bytes[i]), left to right
RECURSIVE accumulate(_)
accumulate(b) ==
    IF Len(b) = 0 THEN 0
    ELSE 256 * accumulate(SubSeq(b, 1, Len(b) - 1)) + b[Len(b)]

\* Returns the value returned and the contents of the array after the call.
uint8ToBigint(b, handleNegative) ==
    LET isNegative == handleNegative /\ (b[1] >= 128)
        after == IF isNegative THEN addCarry(invertBytes(b), Len(b), 1) ELSE b
        result == accumulate(after)
    IN  [ret |-> IF isNegative THEN -result ELSE result, bytes |-> after]

\* The earlier utility: always interprets the sign bit.
uint8Array2BigInt(b) ==
    LET isNegative == b[1] >= 128
        after == IF isNegative THEN addCarry(invertBytes(b), Len(b), 1) ELSE b
        result == accumulate(after)
    IN  [ret |-> IF isNegative THEN -result ELSE result, bytes |-> after]

----------------------------------------------------------------------------
(* Modular arithmetic.                                                     *)

eGcdBase(b) == [g |-> b, x |-> 0, y |-> 1]

\* eGcdCombine with b / a rounded down instead of toward zero.
eGcdCombineFloor(a, b, sub) ==
    [g |-> sub.g, x |-> sub.y - (IF a > 0 THEN b \div a ELSE (-b) \div (-a)) * sub.x,
     y |-> sub.x]

\* The triple eGcd(a, b) builds from sub, the triple of eGcd(b % a, a).
eGcdCombine(a, b, sub) ==
    [g |-> sub.g, x |-> sub.y - jsDiv(b, a) * sub.x, y |-> sub.x]

RECURSIVE eGcd(_, _)
eGcd(a, b) ==
    IF a = 0 THEN eGcdBase(b)
    ELSE eGcdCombine(a, b, eGcd(jsRem(b, a), a))

toZn(a, m) ==
    IF m <= 0 THEN Throw("m must be > 0")
    ELSE LET aZm == jsRem(a, m)
         IN  Ok(IF aZm < 0 THEN aZm + m ELSE aZm)

\* modInv without the test of egcd.g.
modInvNoCheck(a, m) ==
    LET aZn == toZn(a, m)
    IN  IF ~aZn.ok THEN aZn ELSE toZn(eGcd(aZn.val, m).x, m)

modInv(a, m) ==
    LET aZn == toZn(a, m)
    IN  IF ~aZn.ok THEN aZn
        ELSE LET egcd == eGcd(aZn.val, m)
             IN  IF egcd.g # 1 THEN Throw("Modular inverse does not exist")
                 ELSE toZn(egcd.x, m)

RECURSIVE gcd(_, _)
gcd(a, b) == IF b = 0 THEN a ELSE gcd(b, jsRem(a, b))

isOdd(n) == jsRem(n, 2) = 1

isEven(n) == ~isOdd(n)

\* modPowLoop whose early exit returns the accumulator r instead of 0.
RECURSIVE modPowLoopReturnsR(_, _, _, _)
modPowLoopReturnsR(r, base, exp, m) ==
    IF exp > 0
    THEN IF base = 0 THEN Ok(r)
         ELSE modPowLoopReturnsR(IF isOdd(exp) THEN jsRem(r * base, m) ELSE r,
                                 jsRem(base * base, m), jsDiv(exp, 2), m)
    ELSE Ok(r)

\* The while loop of modPow: r, base and exp are its loop variables.
RECURSIVE modPowLoop(_, _, _, _)
modPowLoop(r, base, exp, m) ==
    IF exp > 0
    THEN IF base = 0 THEN Ok(0)
         ELSE modPowLoop(IF isOdd(exp) THEN jsRem(r * base, m) ELSE r,
                         jsRem(base * base, m), jsDiv(exp, 2), m)
    ELSE Ok(r)

RECURSIVE modPow(_, _, _)
modPow(base, exp, m) ==
    IF m = 0 THEN Throw("Cannot modPow with modulus 0")
    ELSE IF exp = 0 THEN Ok(1)
    ELSE LET baseZn == toZn(base, m)
         IN  IF ~baseZn.ok THEN baseZn
             ELSE IF exp < 0
                  THEN LET p == modPow(baseZn.val, abs(exp), m)
                       IN  IF ~p.ok THEN p ELSE modInv(p.val, m)
                  ELSE modPowLoop(1, baseZn.val, exp, m)

----------------------------------------------------------------------------
(* random(start, end).                                                     *)

\* byte.toString(16).padStart(2, '0') for every byte of the buffer
RECURSIVE bufferToHex(_)
bufferToHex(buffer) ==
    IF Len(buffer) = 0 THEN <<>>
    ELSE LET h == toString(buffer[1], 16)
         IN  (IF Len(h) < 2 THEN <<0>> \o h ELSE h) \o bufferToHex(Tail(buffer))

randomDiff(start, end) == end - start + 1

randomDiffLength(start, end) == Len(toString(randomDiff(start, end), 2))

\* Math.ceil(diffLength / 8)
randomByteSize(start, end) == (randomDiffLength(start, end) + 7) \div 8

\* `1n << BigInt(diffLength) - 1n`: the subtraction binds before the shift.
randomMask(diffLength) == pow2(diffLength - 1)

\* The candidate one pass of the do-while loop computes from the drawn buffer.
randomCandidate(start, end, buffer) ==
    bitAnd(parseHex(bufferToHex(buffer)), randomMask(randomDiffLength(start, end)))

\* What randomBytes(byteSize) can return.
RECURSIVE randomBytes(_)
randomBytes(bufferSize) ==
    IF bufferSize = 0 THEN {<<>>}
    ELSE {<<x>> \o t : x \in 0..255, t \in randomBytes(bufferSize - 1)}

----------------------------------------------------------------------------
(* The caller session.                                                     *)

Ops == {"bigintToUint8", "uint8ToBigint", "uint8Array2BigInt", "eGcd",
        "modInv", "modPow", "isOdd", "isEven", "random"}

RECURSIVE ByteArrays(_)
ByteArrays(len) ==
    IF len = 0 THEN {<<>>}
    ELSE {<<x>> \o t : x \in ByteChoices, t \in ByteArrays(len - 1)}

CallerArrays == UNION {ByteArrays(len) : len \in 1..MaxLen}

ArgsOf(o) ==
    CASE o = "bigintToUint8" ->
           [num : -MaxNum..MaxNum, handleNegative : BOOLEAN]
      [] o = "uint8ToBigint" ->
           [bytes : CallerArrays, handleNegative : BOOLEAN]
      [] o = "uint8Array2BigInt" -> [bytes : CallerArrays]
      [] o = "eGcd" -> [a : -MaxGcd..MaxGcd, b : -MaxGcd..MaxGcd]
      [] o = "modInv" -> [a : -MaxInv..MaxInv, m : -1..MaxMod]
      [] o = "modPow" ->
           [base : -MaxBase..MaxBase, exp : -MaxExp..MaxExp, m : -1..MaxMod]
      [] o = "isOdd" -> [n : -MaxParity..MaxParity]
      [] o = "isEven" -> [n : -MaxParity..MaxParity]
      [] o = "random" -> [start : -MaxRand..MaxRand, end : -MaxRand..MaxRand]

DecodeOps == {"uint8ToBigint", "uint8Array2BigInt"}

Init ==
    /\ op \in Ops
    /\ args \in ArgsOf(op)
    /\ pc = "ready"
    /\ ret = None
    /\ bytes = IF op \in DecodeOps THEN args.bytes ELSE <<>>
    /\ log = <<>>
    /\ stack = <<>>

\* bigintToUint8(num, handleNegative): the caller keeps the returned array.
Encode ==
    /\ op = "bigintToUint8" /\ pc = "ready"
    /\ ret' = bigintToUint8(args.num, args.handleNegative)
    /\ bytes' = IF ret'.ok THEN ret'.val ELSE bytes
    /\ pc' = "done"
    /\ UNCHANGED <<op, args, log, stack>>

\* Which decoder the session applies to its array, and with which flag.
Decoder ==
    IF op = "uint8Array2BigInt" THEN [fn |-> "uint8Array2BigInt", handleNegative |-> TRUE]
    ELSE [fn |-> "uint8ToBigint", handleNegative |-> args.handleNegative]

\* One call of the decoder on the array object the caller holds: the array
\* is passed by reference, so what the call writes to it stays written.
Decode ==
    /\ \/ op \in DecodeOps
       \/ op = "bigintToUint8" /\ pc = "done" /\ ret.ok
    /\ Len(log) < MaxDecodes
    /\ LET d == Decoder
           r == IF d.fn = "uint8Array2BigInt" THEN uint8Array2BigInt(bytes)
                ELSE uint8ToBigint(bytes, d.handleNegative)
       IN  /\ log' = Append(log, [fn |-> d.fn, handleNegative |-> d.handleNegative,
                                  before |-> bytes, after |-> r.bytes, ret |-> r.ret])
           /\ bytes' = r.bytes
           /\ ret' = IF op \in DecodeOps THEN Ok(r.ret) ELSE ret
    /\ pc' = "done"
    /\ UNCHANGED <<op, args, stack>>

\* eGcd(a, b), one frame at a time: stack holds the pending calls, innermost
\* last; ret holds the triple the innermost finished call returned.
EGcdCall ==
    /\ op = "eGcd" /\ pc = "ready"
    /\ stack' = <<[a |-> args.a, b |-> args.b]>>
    /\ pc' = "call"
    /\ UNCHANGED <<op, args, ret, bytes, log>>

EGcdRecurse ==
    /\ op = "eGcd" /\ pc = "call"
    /\ LET f == stack[Len(stack)]
       IN  /\ f.a # 0
           /\ stack' = Append(stack, [a |-> jsRem(f.b, f.a), b |-> f.a])
    /\ UNCHANGED <<op, args, pc, ret, bytes, log>>

EGcdBaseCase ==
    /\ op = "eGcd" /\ pc = "call"
    /\ LET f == stack[Len(stack)]
       IN  /\ f.a = 0
           /\ ret' = Ok(eGcdBase(f.b))
    /\ stack' = SubSeq(stack, 1, Len(stack) - 1)
    /\ pc' = IF Len(stack) = 1 THEN "done" ELSE "return"
    /\ UNCHANGED <<op, args, bytes, log>>

EGcdReturn ==
    /\ op = "eGcd" /\ pc = "return"
    /\ LET f == stack[Len(stack)]
       IN  ret' = Ok(eGcdCombine(f.a, f.b, ret.val))
    /\ stack' = SubSeq(stack, 1, Len(stack) - 1)
    /\ pc' = IF Len(stack) = 1 THEN "done" ELSE "return"
    /\ UNCHANGED <<op, args, bytes, log>>

EGcdStep == EGcdCall \/ EGcdRecurse \/ EGcdBaseCase \/ EGcdReturn

ModInv ==
    /\ op = "modInv" /\ pc = "ready"
    /\ ret' = modInv(args.a, args.m)
    /\ pc' = "done"
    /\ UNCHANGED <<op, args, bytes, log, stack>>

ModPow ==
    /\ op = "modPow" /\ pc = "ready"
    /\ ret' = modPow(args.base, args.exp, args.m)
    /\ pc' = "done"
    /\ UNCHANGED <<op, args, bytes, log, stack>>

IsOdd ==
    /\ op = "isOdd" /\ pc = "ready"
    /\ ret' = Ok(isOdd(args.n))
    /\ pc' = "done"
    /\ UNCHANGED <<op, args, bytes, log, stack>>

IsEven ==
    /\ op = "isEven" /\ pc = "ready"
    /\ ret' = Ok(isEven(args.n))
    /\ pc' = "done"
    /\ UNCHANGED <<op, args, bytes, log, stack>>

\* random(start, end) refuses start > end.
RandomThrow ==
    /\ op = "random" /\ pc = "ready"
    /\ args.start > args.end
    /\ ret' = Throw("Start must be less than end")
    /\ pc' = "done"
    /\ UNCHANGED <<op, args, bytes, log, stack>>

\* One pass of the do-while loop on a freshly drawn buffer: the candidate is
\* returned unless it exceeds diff, in which case the loop draws again.
RandomDraw ==
    /\ op = "random" /\ pc = "ready"
    /\ args.start <= args.end
    /\ \E buffer \in randomBytes(randomByteSize(args.start, args.end)) :
         LET result == randomCandidate(args.start, args.end, buffer)
         IN  IF result > randomDiff(args.start, args.end)
             THEN UNCHANGED <<ret, pc>>
             ELSE /\ ret' = Ok(args.start + result)
                  /\ pc' = "done"
    /\ UNCHANGED <<op, args, bytes, log, stack>>

Next ==
    \/ Encode
    \/ Decode
    \/ EGcdCall
    \/ EGcdRecurse
    \/ EGcdBaseCase
    \/ EGcdReturn
    \/ ModInv
    \/ ModPow
    \/ IsOdd
    \/ IsEven
    \/ RandomThrow
    \/ RandomDraw

Spec == Init /\ [][Next]_vars

\* Every started call keeps running: the program is single-threaded and
\* nothing preempts a frame of eGcd.
FairSpec == Spec /\ WF_vars(EGcdStep)

----------------------------------------------------------------------------
(* Reference notions the properties are stated with.                       *)

Divides(d, n) == \E k \in -abs(n)..abs(n) : n = d * k

\* The mathematical greatest common divisor (0 for the pair 0, 0).
MathGcd(a, b) ==
    IF a = 0 /\ b = 0 THEN 0
    ELSE CHOOSE d \in 1..(abs(a) + abs(b)) :
           /\ Divides(d, a) /\ Divides(d, b)
           /\ \A e \in 1..(abs(a) + abs(b)) : Divides(e, a) /\ Divides(e, b) => e <= d

RECURSIVE IntPow(_, _)
IntPow(x, n) == IF n = 0 THEN 1 ELSE x * IntPow(x, n - 1)

\* The unique representative of n modulo m in 0..m-1 (m > 0).
MathMod(n, m) == CHOOSE r \in 0..(m - 1) : Divides(m, n - r)

\* The k-byte two's-complement reading of a byte sequence with the sign bit set.
TwosComplementValue(b) == accumulate(b) - IntPow(256, Len(b))

\* The smallest byte count k with -2^(8k-1) <= v, for v < 0.
RECURSIVE MinimalBytes(_, _)
MinimalBytes(v, k) == IF -IntPow(2, 8 * k - 1) <= v THEN k ELSE MinimalBytes(v, k + 1)

Called(o) == op = o /\ pc = "done"

----------------------------------------------------------------------------
(* Properties.                                                             *)

\* C1: round trip with two's-complement handling: for every integer v,
\* decoding (handleNegative = true) the array bigintToUint8(v, true) returned
\* gives v back, also for positive v whose top byte has its high bit set.
C1_RoundTrip ==
    (op = "bigintToUint8" /\ args.handleNegative /\ Len(log) >= 1)
        => log[1].ret = args.num

\* C2: for m >= 1, any base and exp >= 1, modPow(base, exp, m) returns the
\* unique r in 0..m-1 congruent to base^exp modulo m (base multiplied by itself
\* exp times, then reduced); the early `return 0` does not change the result.
C2_ModPowAgrees ==
    (Called("modPow") /\ args.m >= 1 /\ args.exp >= 1)
        => /\ ret.ok
           /\ ret.val \in 0..(args.m - 1)
           /\ ret.val = MathMod(IntPow(args.base, args.exp), args.m)

\* C2 witness: a call whose base is not a multiple of m but becomes 0 by
\* squaring inside the loop, so the early return is taken after iterations.
C2_Witness ==
    /\ Called("modPow") /\ args.m >= 2 /\ args.exp >= 2
    /\ MathMod(args.base, args.m) # 0
    /\ MathMod(args.base * args.base, args.m) = 0
    /\ ret.ok /\ ret.val = 0

EGcdResultOk ==
    /\ ret.ok
    /\ args.a * ret.val.x + args.b * ret.val.y = ret.val.g
    /\ (args.a >= 0 /\ args.b >= 0)
          => /\ ret.val.g = MathGcd(args.a, args.b)
             /\ ret.val.g = gcd(args.a, args.b)

\* C4: for every pair (a, b) of any sign, zeros included, the recursion of
\* eGcd(a, b) terminates and the returned (g, x, y) satisfies a*x + b*y = g;
\* for a >= 0 and b >= 0, g is the greatest common divisor, equal to gcd(a, b).
C4_EGcdTerminatesCorrect ==
    (op = "eGcd" /\ pc = "ready") ~> (Called("eGcd") /\ EGcdResultOk)

\* C4 witness: a finished call on a negative a that recursed at least twice
\* (both coefficients non-zero) with b positive.
C4_Witness ==
    /\ Called("eGcd") /\ args.a < 0 /\ args.b > 0
    /\ ret.val.x # 0 /\ ret.val.y # 0 /\ ret.val.g \notin {args.a, args.b}

\* C5: for start <= end and any bytes the source produces, random(start, end)
\* returns v with start <= v <= end; for start > end it fails with an error.
C5_RandomInRange ==
    Called("random")
        => IF args.start <= args.end
           THEN ret.ok /\ args.start <= ret.val /\ ret.val <= args.end
           ELSE ~ret.ok

\* C6: random(start, end) can produce every value of the interval: for every
\* start <= end and every v in start..end some output of the random-byte
\* source makes the call return v.
C6_RandomCoversInterval ==
    (op = "random" /\ pc = "ready" /\ args.start <= args.end)
        => \A v \in args.start..args.end : ENABLED (RandomDraw /\ ret' = Ok(v))

\* C7: decoding does not change the caller's data: after every decoder call
\* each element of the array equals its value before the call, so a second
\* decode of the same array returns the same integer as the first.
C7_DecodeKeepsBytes ==
    \A i \in 1..Len(log) :
        /\ log[i].after = log[i].before
        /\ i > 1 => log[i].ret = log[i - 1].ret

\* C8: for every integer n, negative ones included, isOdd(n) is true exactly
\* when 2 does not divide n, and isEven(n) exactly when 2 divides n.
C8_Parity ==
    /\ Called("isOdd") => (ret.val <=> ~Divides(2, args.n))
    /\ Called("isEven") => (ret.val <=> Divides(2, args.n))

\* C9: for every negative v, bigintToUint8(v, true) is the minimal byte-aligned
\* two's-complement representation: the first byte has its high bit set, the
\* bytes read as k-byte two's complement equal v, and k is the smallest byte
\* count with -2^(8k-1) <= v.
C9_MinimalTwosComplement ==
    (Called("bigintToUint8") /\ log = <<>> /\ args.num < 0 /\ args.handleNegative)
        => /\ ret.ok
           /\ ret.val[1] >= 128
           /\ TwosComplementValue(ret.val) = args.num
           /\ Len(ret.val) = MinimalBytes(args.num, 1)

\* C10: for m >= 1, any base and any exp (zero, positive or negative), a value
\* r returned by modPow(base, exp, m) satisfies 0 <= r < m.
C10_ModPowInRange ==
    (Called("modPow") /\ args.m >= 1 /\ ret.ok)
        => (0 <= ret.val /\ ret.val < args.m)

====
